---- MODULE Spec2Model ----
(***************************************************************************)
(* Delayr backend: the admission gate (rateLimit), the POST /api/run       *)
(* handler, the run controller (createAndStartRun / runEndpointTests), the *)
(* run store (test_runs / api_requests tables) and the GET /api/run/:id    *)
(* handler; the web client's polling; the CLI.                             *)
(*                                                                         *)
(* Granularity: Node.js runs a callback to its next `await`, so one action *)
(* is the code between two awaits.  A store query either takes effect and  *)
(* resolves, or has no effect and rejects.                                 *)
(***************************************************************************)
EXTENDS Integers, Sequences, FiniteSets, TLC

\* ---------------------------------------------------------------- bounds
MaxEndpoints == 2      \* longest endpoint list a client submits
MaxReq       == 2      \* largest requestCount a client submits
MaxProbes    == 4      \* probes asked for by the runs of the controller scenario
GateProbes   == 1      \* probes asked for by the runs of the gate scenario
MaxPosts     == 4      \* POST /api/run requests of the gate scenario
MaxTime      == 3000   \* the clock stops here (ms)
TickMs       == 500    \* granularity of the clock (ms)
MaxData      == 4      \* longest latency array passed to computePercentiles
MaxRows      == 4      \* most rows of a mixed api_requests table
MaxGroup     == 32     \* most rows of a table holding a single group
MaxGets      == 2      \* GET /api/run/:id requests under way at once

\* ------------------------------------------------------ program constants
RATE_LIMIT_REQUESTS  == 2      \* process.env.RATE_LIMIT_REQUESTS
RATE_LIMIT_WINDOW_MS == 2000   \* process.env.RATE_LIMIT_WINDOW_MS
MsPerSecond          == 1000   \* the divisor of retryAfter
MAX_ENDPOINTS        == 10     \* endpoints.length > 10
MAX_REQUEST_COUNT    == 200    \* requestCount > 200

Null == -1                     \* SQL NULL / JS undefined for a number

Callers == {"ip1"}

\* the run ids createAndStartRun can draw (run_<time>_<random>)
RunIds == {1}

\* the run ids when two runs are followed
PairIds == {1, 2}

\* the connections GET /api/run/:id requests arrive on
GetIds == 1..MaxGets

\* ----------------------------------------------------------- request data
validMethods == {"GET", "POST", "PUT", "PATCH", "DELETE"}

\* new URL(url) succeeds
UrlParses(url) == url \in {"http://a", "http://b"}

\* the endpoints clients submit
EndpointMenu ==
  { [url |-> "http://a", method |-> "GET"],
    [url |-> "http://b", method |-> "POST"] }

EndpointLists ==
  UNION { [1..n -> EndpointMenu] : n \in 1..MaxEndpoints }

\* request bodies that pass the handler's checks
GoodBodies ==
  [endpoints : EndpointLists, requestCount : 1..MaxReq]

\* one request body for each check of the handler that can reject
BadBodies ==
  LET a == [url |-> "http://a", method |-> "GET"]
  IN { [endpoints |-> <<>>, requestCount |-> 1],
       [endpoints |-> [k \in 1..(MAX_ENDPOINTS + 1) |-> a], requestCount |-> 1],
       [endpoints |-> <<a>>, requestCount |-> 0],
       [endpoints |-> <<a>>, requestCount |-> MAX_REQUEST_COUNT + 1],
       [endpoints |-> <<[url |-> "nonsense", method |-> "GET"]>>,
        requestCount |-> 1],
       [endpoints |-> <<a, [url |-> "http://a", method |-> "TRACE"]>>,
        requestCount |-> 1] }

Bodies == GoodBodies \cup BadBodies

\* the checks of the POST /api/run handler, in the code's order
ValidEndpoint(e) ==
  /\ UrlParses(e.url)
  /\ e.method \in validMethods

ValidBody(body) ==
  /\ Len(body.endpoints) # 0
  /\ ~(Len(body.endpoints) > MAX_ENDPOINTS)
  /\ ~(body.requestCount < 1 \/ body.requestCount > MAX_REQUEST_COUNT)
  /\ \A k \in 1..Len(body.endpoints) : ValidEndpoint(body.endpoints[k])

\* ------------------------------------------------------------------ state
VARIABLES
  now,            \* Date.now() / NOW(), in ms
  requestCounts,  \* the Map of rateLimit: caller -> {count, resetTime}
  attempts,       \* per caller: attempts seen since its window was started
  verdict,        \* the outcome of the latest rateLimit call
  posts,          \* POST /api/run requests received so far
  resp,           \* the latest HTTP response sent
  test_runs,      \* table test_runs: run id -> row
  api_requests,   \* table api_requests: per run_id, its rows in id order
  task,           \* per run: where its background task stands
  probes,         \* per run: the makeRequest calls made, in order
  inflight,       \* per run: makeRequest calls that have not returned
  returned,       \* per run: makeRequest calls that have returned
  failedWrites,   \* per run: the store writes that rejected
  writes,         \* per run: the statuses written to its row, in order
  call,           \* the function call under study: its name and arguments
  ret,            \* what that call produced
  gets,           \* the GET /api/run/:id requests under way, by connection
  polling,        \* web client: the state `polling`
  currentRun,     \* web client: the state `currentRun`
  resultsState    \* web client: the state `results`

vars == <<now, requestCounts, attempts, verdict, posts, resp, test_runs,
          api_requests, task, probes, inflight, returned, failedWrites,
          writes, call, ret, gets, polling, currentRun,
          resultsState>>

pureVars == <<call, ret>>
webVars  == <<gets, polling, currentRun, resultsState>>
gateVars == <<requestCounts, attempts, verdict>>
runVars  == <<test_runs, api_requests, task, probes, inflight, returned,
              failedWrites, writes>>

NoRecord == [count |-> 0, resetTime |-> Null]
NoRow    == [status |-> "none", started_at |-> Null, completed_at |-> Null,
             endpoints |-> <<>>, request_count |-> 0]
NoResult == [run_id |-> 0, endpoint |-> "", method |-> "", latency_ms |-> 0,
             request_size_bytes |-> 0, status_code |-> 0,
             error_message |-> FALSE, req |-> <<0, 0>>]
NoTask   == [pc |-> "idle", seq |-> 0, eps |-> <<>>, rc |-> 0, e |-> 0, i |-> 0,
             result |-> NoResult]
NoVerdict == [seq |-> 0, ip |-> "none", k |-> 0, admit |-> TRUE, fresh |-> FALSE,
              hadRecord |-> FALSE, remaining |-> 0, retryAfter |-> Null]
NoResp   == [seq |-> 0, code |-> 0, runId |-> 0]
NoCall   == [fn |-> "none"]
NoRet    == [fn |-> "none"]
NoGet    == [pc |-> "idle", id |-> 0, code |-> 0, run |-> NoRow,
             results |-> <<>>]
NoRun    == [id |-> 0, status |-> "none"]

Terminal == {"completed", "failed"}

\* --------------------------------------------------------- admission gate
\* Math.ceil(a / b) for b > 0
CeilDiv(a, b) == -((-a) \div b)

\* now > record.resetTime
WindowElapsed(rec, t) == t > rec.resetTime

LimitReached_OffByOne(rec) == rec.count > RATE_LIMIT_REQUESTS

\* record.count >= RATE_LIMIT_REQUESTS
LimitReached(rec) == rec.count >= RATE_LIMIT_REQUESTS

RetryAfter_Floor(rec, t) == (rec.resetTime - t) \div MsPerSecond

\* Math.ceil((record.resetTime - now) / 1000)
RetryAfter(rec, t) == CeilDiv(rec.resetTime - t, MsPerSecond)

\* an admitted attempt inside the window leaves the count as it read it
RateLimit_NoCount(rec, t) ==
  IF rec = NoRecord \/ WindowElapsed(rec, t)
  THEN [admit |-> TRUE, fresh |-> TRUE, retryAfter |-> Null,
        rec |-> [count |-> 1, resetTime |-> t + RATE_LIMIT_WINDOW_MS]]
  ELSE IF LimitReached(rec)
  THEN [admit |-> FALSE, fresh |-> FALSE, retryAfter |-> RetryAfter(rec, t),
        rec |-> rec]
  ELSE [admit |-> TRUE, fresh |-> FALSE, retryAfter |-> Null, rec |-> rec]

\* rateLimit(req, res, next): the new Map entry and what it answered
RateLimit(rec, t) ==
  IF rec = NoRecord \/ WindowElapsed(rec, t)
  THEN [admit |-> TRUE, fresh |-> TRUE, retryAfter |-> Null,
        rec |-> [count |-> 1, resetTime |-> t + RATE_LIMIT_WINDOW_MS]]
  ELSE IF LimitReached(rec)
  THEN [admit |-> FALSE, fresh |-> FALSE, retryAfter |-> RetryAfter(rec, t),
        rec |-> rec]
  ELSE [admit |-> TRUE, fresh |-> FALSE, retryAfter |-> Null,
        rec |-> [rec EXCEPT !.count = @ + 1]]

\* ----------------------------------------------------------------- store
CreateTestRun_Lost(rows, id, endpoints, requestCount) == rows

\* createTestRun: INSERT INTO test_runs (...) VALUES (..., 'pending')
CreateTestRun(rows, id, endpoints, requestCount) ==
  [rows EXCEPT ![id] = [status |-> "pending", started_at |-> Null,
                        completed_at |-> Null, endpoints |-> endpoints,
                        request_count |-> requestCount]]

UpdateTestRunStatus_IgnoresRunning(rows, id, status, t) ==
  IF rows[id].status = "none" \/ status = "running" THEN rows
  ELSE [rows EXCEPT ![id].status = status, ![id].completed_at = t]

UpdateTestRunStatus_StatusOnly(rows, id, status, t) ==
  IF rows[id].status = "none" THEN rows
  ELSE IF status = "running"
  THEN [rows EXCEPT ![id].status = status, ![id].started_at = t]
  ELSE [rows EXCEPT ![id].status = status]

\* updateTestRunStatus(id, status): UPDATE test_runs SET ... WHERE id = $id
UpdateTestRunStatus(rows, id, status, t) ==
  IF rows[id].status = "none" THEN rows
  ELSE IF status = "running"
  THEN [rows EXCEPT ![id].status = status, ![id].started_at = t]
  ELSE [rows EXCEPT ![id].status = status, ![id].completed_at = t]

\* insertRequestResult(result): INSERT INTO api_requests (...)
InsertRequestResult(rows, result) ==
  [rows EXCEPT ![result.run_id] = Append(@, result)]

\* ------------------------------------------------------------ controller
\* the status codes a probe can end with: 0 is "no response"
ProbeOutcomes == {200, 500, 0}

\* the latency makeRequest measures, in ms, by how the probe ended: an error
\* answer comes late, no answer comes after a timeout
ProbeLatency(code) ==
  CASE code = 200 -> 20
    [] code = 500 -> 120
    [] OTHER      -> 600

\* makeRequest's return value for the probe at loop position <<e, i>>; the
\* endpoints submitted carry no payload
MakeResult(runId, eps, e, i, code) ==
  [run_id |-> runId, endpoint |-> eps[e].url, method |-> eps[e].method,
   latency_ms |-> ProbeLatency(code), request_size_bytes |-> 0,
   status_code |-> code, error_message |-> (code = 0), req |-> <<e, i>>]

\* the inner loop stops one request early
Advance_ShortInner(eps, rc, e, i) ==
  IF i + 1 < rc THEN <<e, i + 1>>
  ELSE IF e + 1 <= Len(eps) THEN <<e + 1, 1>>
  ELSE <<0, 0>>

\* the outer loop stops one endpoint early
Advance_ShortOuter(eps, rc, e, i) ==
  IF i + 1 <= rc THEN <<e, i + 1>>
  ELSE IF e + 1 < Len(eps) THEN <<e + 1, 1>>
  ELSE <<0, 0>>

\* the request number is not reset for the next endpoint
Advance_NoReset(eps, rc, e, i) ==
  IF i + 1 <= rc THEN <<e, i + 1>>
  ELSE IF e + 1 <= Len(eps) THEN <<e + 1, i>>
  ELSE <<0, 0>>

\* the two nested for loops of runEndpointTests: the position after <<e, i>>,
\* <<0, 0>> when both loops are over
Advance(eps, rc, e, i) ==
  IF i + 1 <= rc THEN <<e, i + 1>>
  ELSE IF e + 1 <= Len(eps) THEN <<e + 1, 1>>
  ELSE <<0, 0>>

MakeRequestThrows_NoResponse(code) == code = 0

\* does makeRequest reject for a probe that ended with this status code?
\* validateStatus accepts every status and the catch block turns every error
\* into a result, so it never does
MakeRequestThrows(code) == FALSE

SwallowsInsertError_Not == FALSE

\* does the try/catch around insertRequestResult keep a rejected insert from
\* reaching the outer catch block?
SwallowsInsertError == TRUE

HandlerStatus_Completed == "completed"
HandlerStatus_Pending == "pending"

\* the status written by the .catch handler of createAndStartRun
HandlerStatus == "failed"

CatchStatus_Pending == "pending"
CatchStatus_Completed == "completed"

\* the status written by the catch block of runEndpointTests
CatchStatus == "failed"

\* ------------------------------------------------------------------ Init
\* the server after start-up, with room for the runs ids: no caller seen, both
\* tables empty, no request under way; the web client before a submission
StartUp(ids) ==
  /\ now = 0
  /\ requestCounts = [c \in Callers |-> NoRecord]
  /\ attempts = [c \in Callers |-> 0]
  /\ verdict = NoVerdict
  /\ posts = 0
  /\ resp = NoResp
  /\ test_runs = [r \in ids |-> NoRow]
  /\ api_requests = [r \in ids |-> <<>>]
  /\ task = [r \in ids |-> NoTask]
  /\ probes = [r \in ids |-> <<>>]
  /\ inflight = [r \in ids |-> 0]
  /\ returned = [r \in ids |-> 0]
  /\ failedWrites = [r \in ids |-> {}]
  /\ writes = [r \in ids |-> <<>>]
  /\ gets = [q \in GetIds |-> NoGet]
  /\ polling = FALSE
  /\ currentRun = NoRun
  /\ resultsState = <<>>

ServerInit == StartUp(RunIds)

Init ==
  /\ ServerInit
  /\ call = NoCall
  /\ ret = NoRet

\* --------------------------------------------------------------- actions
\* time passes
Tick ==
  /\ now + TickMs <= MaxTime
  /\ now' = now + TickMs
  /\ UNCHANGED <<pureVars, webVars, gateVars, posts, resp, runVars>>

Runs == DOMAIN task

FreeIds == {r \in Runs : task[r].pc = "idle"}

\* probes already asked for by the runs created so far
RECURSIVE RequestedBy(_)
RequestedBy(S) ==
  IF S = {} THEN 0
  ELSE LET r == CHOOSE x \in S : TRUE
       IN Len(task[r].eps) * task[r].rc + RequestedBy(S \ {r})

\* a run of eps x rc probes still fits the scenario
Fits(eps, rc, budget) ==
  /\ FreeIds # {}
  /\ RequestedBy(Runs) + Len(eps) * rc <= budget

\* createAndStartRun(endpoints, requestCount) up to `await createTestRun(...)`,
\* called for HTTP request number seq
StartRun(seq, eps, rc) ==
  LET r == CHOOSE x \in FreeIds : \A y \in FreeIds : x <= y
  IN task' = [task EXCEPT ![r] =
                [NoTask EXCEPT !.pc = "create", !.seq = seq, !.eps = eps,
                               !.rc = rc]]

\* createAndStartRun called directly with validated parameters
CreateAndStartRun(body) ==
  /\ ValidBody(body)
  /\ Fits(body.endpoints, body.requestCount, MaxProbes)
  /\ StartRun(0, body.endpoints, body.requestCount)
  /\ UNCHANGED <<pureVars, webVars, now, gateVars, posts, resp, test_runs, api_requests, probes,
                 inflight, returned, failedWrites, writes>>

\* POST /api/run from caller ip: rateLimit, then the handler up to its
\* `await createTestRun(...)` inside createAndStartRun
PostWithin(ip, body, budget) ==
  LET g  == RateLimit(requestCounts[ip], now)
      ok == g.admit /\ ValidBody(body)
  IN
  /\ posts < MaxPosts
  /\ ok => Fits(body.endpoints, body.requestCount, budget)
  /\ posts' = posts + 1
  /\ requestCounts' = [requestCounts EXCEPT ![ip] = g.rec]
  /\ attempts' = [attempts EXCEPT ![ip] = IF g.fresh THEN 1 ELSE @ + 1]
  /\ verdict' = [seq |-> posts + 1, ip |-> ip, k |-> attempts'[ip],
                 admit |-> g.admit, fresh |-> g.fresh,
                 hadRecord |-> requestCounts[ip] # NoRecord,
                 remaining |-> IF requestCounts[ip] = NoRecord THEN 0
                               ELSE requestCounts[ip].resetTime - now,
                 retryAfter |-> g.retryAfter]
  /\ IF ~g.admit
     THEN /\ resp' = [seq |-> posts + 1, code |-> 429, runId |-> 0]
          /\ UNCHANGED runVars
     ELSE IF ~ValidBody(body)
     THEN /\ resp' = [seq |-> posts + 1, code |-> 400, runId |-> 0]
          /\ UNCHANGED runVars
     ELSE /\ StartRun(posts + 1, body.endpoints, body.requestCount)
          /\ UNCHANGED <<resp, test_runs, api_requests, probes, inflight,
                         returned, failedWrites, writes>>
  /\ UNCHANGED <<pureVars, webVars, now>>

\* POST /api/run in the gate scenario
Post(ip, body) == PostWithin(ip, body, GateProbes)

\* createTestRun resolved: createAndStartRun calls runEndpointTests, which runs
\* to its `await updateTestRunStatus(runId, 'running')`, and the handler answers
CreateOk(r) ==
  /\ task[r].pc = "create"
  /\ test_runs' = CreateTestRun(test_runs, r, task[r].eps, task[r].rc)
  /\ writes' = [writes EXCEPT ![r] = Append(@, "pending")]
  /\ task' = [task EXCEPT ![r].pc = "setRunning"]
  /\ resp' = IF task[r].seq = 0 THEN resp
             ELSE [seq |-> task[r].seq, code |-> 200, runId |-> r]
  /\ UNCHANGED <<pureVars, webVars, now, gateVars, posts, api_requests, probes, inflight, returned,
                 failedWrites>>

\* createTestRun rejected: createAndStartRun throws, the handler answers 500
CreateFail(r) ==
  /\ task[r].pc = "create"
  /\ failedWrites' = [failedWrites EXCEPT ![r] = @ \cup {"create"}]
  /\ task' = [task EXCEPT ![r].pc = "done"]
  /\ resp' = IF task[r].seq = 0 THEN resp
             ELSE [seq |-> task[r].seq, code |-> 500, runId |-> 0]
  /\ UNCHANGED <<pureVars, webVars, now, gateVars, posts, test_runs, api_requests, probes, inflight,
                 returned, writes>>

\* the loop reaches position pos: either makeRequest is called for it, or both
\* loops are over and updateTestRunStatus(runId, 'completed') is called
EnterLoop(r, pos) ==
  IF pos = <<0, 0>>
  THEN /\ task' = [task EXCEPT ![r].pc = "setCompleted", ![r].e = 0, ![r].i = 0]
       /\ UNCHANGED <<probes, inflight>>
  ELSE /\ task' = [task EXCEPT ![r].pc = "probe", ![r].e = pos[1], ![r].i = pos[2]]
       /\ probes' = [probes EXCEPT ![r] = Append(@, pos)]
       /\ inflight' = [inflight EXCEPT ![r] = @ + 1]

\* the first position of the loops
FirstPos(eps, rc) == IF Len(eps) >= 1 /\ rc >= 1 THEN <<1, 1>> ELSE <<0, 0>>

\* updateTestRunStatus(runId, 'running') resolved: the first probe is issued
SetRunningOk(r) ==
  /\ task[r].pc = "setRunning"
  /\ test_runs' = UpdateTestRunStatus(test_runs, r, "running", now)
  /\ writes' = [writes EXCEPT ![r] = Append(@, "running")]
  /\ EnterLoop(r, FirstPos(task[r].eps, task[r].rc))
  /\ UNCHANGED <<pureVars, webVars, now, gateVars, posts, resp, api_requests, returned, failedWrites>>

\* updateTestRunStatus(runId, 'running') rejected: runEndpointTests rejects before
\* its try block, the .catch handler calls updateTestRunStatus(runId, 'failed')
SetRunningFail(r) ==
  /\ task[r].pc = "setRunning"
  /\ failedWrites' = [failedWrites EXCEPT ![r] = @ \cup {"running"}]
  /\ task' = [task EXCEPT ![r].pc = "handlerFailed"]
  /\ UNCHANGED <<pureVars, webVars, now, gateVars, posts, resp, test_runs, api_requests, probes,
                 inflight, returned, writes>>

\* an exception reaches the catch block of runEndpointTests, which calls
\* updateTestRunStatus(runId, 'failed')
EnterCatch(r) == task' = [task EXCEPT ![r].pc = "catchFailed"]

\* makeRequest settled: with its sample, and insertRequestResult is called
ProbeReturn(r, code) ==
  /\ task[r].pc = "probe"
  /\ inflight' = [inflight EXCEPT ![r] = @ - 1]
  /\ IF MakeRequestThrows(code)
     THEN /\ EnterCatch(r)
          /\ UNCHANGED returned
     ELSE /\ returned' = [returned EXCEPT ![r] = @ + 1]
          /\ task' = [task EXCEPT ![r].pc = "insert",
                                  ![r].result = MakeResult(r, task[r].eps,
                                                  task[r].e, task[r].i, code)]
  /\ UNCHANGED <<pureVars, webVars, now, gateVars, posts, resp, test_runs, api_requests, probes,
                 failedWrites, writes>>

\* insertRequestResult resolved: the loop goes on
InsertOk(r) ==
  /\ task[r].pc = "insert"
  /\ api_requests' = InsertRequestResult(api_requests, task[r].result)
  /\ EnterLoop(r, Advance(task[r].eps, task[r].rc, task[r].e, task[r].i))
  /\ UNCHANGED <<pureVars, webVars, now, gateVars, posts, resp, test_runs, returned, failedWrites,
                 writes>>

\* insertRequestResult rejected: logged by the inner catch, the loop goes on
InsertFail(r) ==
  /\ task[r].pc = "insert"
  /\ failedWrites' = [failedWrites EXCEPT ![r] = @ \cup {"insert"}]
  /\ IF SwallowsInsertError
     THEN EnterLoop(r, Advance(task[r].eps, task[r].rc, task[r].e, task[r].i))
     ELSE EnterCatch(r) /\ UNCHANGED <<probes, inflight>>
  /\ UNCHANGED <<pureVars, webVars, now, gateVars, posts, resp, test_runs, api_requests, returned,
                 writes>>

\* updateTestRunStatus(runId, 'completed') resolved: runEndpointTests resolves
SetCompletedOk(r) ==
  /\ task[r].pc = "setCompleted"
  /\ test_runs' = UpdateTestRunStatus(test_runs, r, "completed", now)
  /\ writes' = [writes EXCEPT ![r] = Append(@, "completed")]
  /\ task' = [task EXCEPT ![r].pc = "done"]
  /\ UNCHANGED <<pureVars, webVars, now, gateVars, posts, resp, api_requests, probes, inflight,
                 returned, failedWrites>>

\* updateTestRunStatus(runId, 'completed') rejected inside the try block: the
\* catch block calls updateTestRunStatus(runId, 'failed')
SetCompletedFail(r) ==
  /\ task[r].pc = "setCompleted"
  /\ failedWrites' = [failedWrites EXCEPT ![r] = @ \cup {"completed"}]
  /\ EnterCatch(r)
  /\ UNCHANGED <<pureVars, webVars, now, gateVars, posts, resp, test_runs, api_requests, probes,
                 inflight, returned, writes>>

\* the catch block's write resolved: `throw error` rejects runEndpointTests, the
\* .catch handler calls updateTestRunStatus(runId, 'failed')
CatchFailedOk(r) ==
  /\ task[r].pc = "catchFailed"
  /\ test_runs' = UpdateTestRunStatus(test_runs, r, CatchStatus, now)
  /\ writes' = [writes EXCEPT ![r] = Append(@, CatchStatus)]
  /\ task' = [task EXCEPT ![r].pc = "handlerFailed"]
  /\ UNCHANGED <<pureVars, webVars, now, gateVars, posts, resp, api_requests, probes, inflight,
                 returned, failedWrites>>

\* the catch block's write rejected: runEndpointTests rejects with that error,
\* the .catch handler calls updateTestRunStatus(runId, 'failed')
CatchFailedFail(r) ==
  /\ task[r].pc = "catchFailed"
  /\ failedWrites' = [failedWrites EXCEPT ![r] = @ \cup {"catchFailed"}]
  /\ task' = [task EXCEPT ![r].pc = "handlerFailed"]
  /\ UNCHANGED <<pureVars, webVars, now, gateVars, posts, resp, test_runs, api_requests, probes,
                 inflight, returned, writes>>

\* the .catch handler's write resolved
HandlerFailedOk(r) ==
  /\ task[r].pc = "handlerFailed"
  /\ test_runs' = UpdateTestRunStatus(test_runs, r, HandlerStatus, now)
  /\ writes' = [writes EXCEPT ![r] = Append(@, HandlerStatus)]
  /\ task' = [task EXCEPT ![r].pc = "done"]
  /\ UNCHANGED <<pureVars, webVars, now, gateVars, posts, resp, api_requests, probes, inflight,
                 returned, failedWrites>>

\* the .catch handler's write rejected: .catch(console.error)
HandlerFailedFail(r) ==
  /\ task[r].pc = "handlerFailed"
  /\ failedWrites' = [failedWrites EXCEPT ![r] = @ \cup {"handlerFailed"}]
  /\ task' = [task EXCEPT ![r].pc = "done"]
  /\ UNCHANGED <<pureVars, webVars, now, gateVars, posts, resp, test_runs, api_requests, probes,
                 inflight, returned, writes>>

\* one step of the background task of run r
TaskStep(r) ==
  \/ CreateOk(r)
  \/ CreateFail(r)
  \/ SetRunningOk(r)
  \/ SetRunningFail(r)
  \/ \E code \in ProbeOutcomes : ProbeReturn(r, code)
  \/ InsertOk(r)
  \/ InsertFail(r)
  \/ SetCompletedOk(r)
  \/ SetCompletedFail(r)
  \/ CatchFailedOk(r)
  \/ CatchFailedFail(r)
  \/ HandlerFailedOk(r)
  \/ HandlerFailedFail(r)

\* the controller scenario: createAndStartRun and its background task
Next ==
  \/ \E body \in Bodies : CreateAndStartRun(body)
  \/ \E r \in Runs : CreateOk(r)
  \/ \E r \in Runs : CreateFail(r)
  \/ \E r \in Runs : SetRunningOk(r)
  \/ \E r \in Runs : SetRunningFail(r)
  \/ \E r \in Runs, code \in ProbeOutcomes : ProbeReturn(r, code)
  \/ \E r \in Runs : InsertOk(r)
  \/ \E r \in Runs : InsertFail(r)
  \/ \E r \in Runs : SetCompletedOk(r)
  \/ \E r \in Runs : SetCompletedFail(r)
  \/ \E r \in Runs : CatchFailedOk(r)
  \/ \E r \in Runs : CatchFailedFail(r)
  \/ \E r \in Runs : HandlerFailedOk(r)
  \/ \E r \in Runs : HandlerFailedFail(r)

Spec == Init /\ [][Next]_vars

\* every store query and every probe settles (pg answers or errors, axios has a
\* timeout), so a background task that can take a step takes one
FairSpec == Spec /\ \A r \in RunIds : WF_vars(TaskStep(r))

\* the gate scenario: POST /api/run requests over time, each followed to its
\* HTTP response
GateNext ==
  \/ Tick
  \/ \E ip \in Callers, body \in Bodies : Post(ip, body)
  \/ \E r \in Runs : CreateOk(r)
  \/ \E r \in Runs : CreateFail(r)

GateSpec == Init /\ [][GateNext]_vars

\* request bodies that ask for a single probe
OneProbeBodies ==
  {body \in GoodBodies : Len(body.endpoints) * body.requestCount = 1}

\* the timed scenario: one run of a single probe while the clock advances
TimedNext ==
  \/ Tick
  \/ \E body \in OneProbeBodies : CreateAndStartRun(body)
  \/ \E r \in Runs : CreateOk(r)
  \/ \E r \in Runs : CreateFail(r)
  \/ \E r \in Runs : SetRunningOk(r)
  \/ \E r \in Runs : SetRunningFail(r)
  \/ \E r \in Runs, code \in ProbeOutcomes : ProbeReturn(r, code)
  \/ \E r \in Runs : InsertOk(r)
  \/ \E r \in Runs : InsertFail(r)
  \/ \E r \in Runs : SetCompletedOk(r)
  \/ \E r \in Runs : SetCompletedFail(r)
  \/ \E r \in Runs : CatchFailedOk(r)
  \/ \E r \in Runs : CatchFailedFail(r)
  \/ \E r \in Runs : HandlerFailedOk(r)
  \/ \E r \in Runs : HandlerFailedFail(r)

TimedSpec == Init /\ [][TimedNext]_vars

\* the server with room for two runs
PairInit ==
  /\ StartUp(PairIds)
  /\ call = NoCall
  /\ ret = NoRet

\* the bodies of a burst: single probes, and one the handler answers with 400
BurstBodies == OneProbeBodies \cup {[endpoints |-> <<>>, requestCount |-> 1]}

\* the burst scenario: POST /api/run requests of one caller that arrive while
\* the handlers of earlier ones are waiting for createTestRun
BurstNext ==
  \/ Tick
  \/ \E ip \in Callers, body \in BurstBodies : PostWithin(ip, body, MaxProbes)
  \/ \E r \in Runs : CreateOk(r)
  \/ \E r \in Runs : CreateFail(r)

BurstSpec == PairInit /\ [][BurstNext]_vars

\* ------------------------------------------------------------ makeRequest
\* the endpoints makeRequest is called with: payload is the byte length of the
\* JSON text of endpoint.payload, 0 when there is no payload
ProbeEndpoints ==
  [url : {"http://a", "http://b"}, method : validMethods, payload : {0, 12}]

\* what `await axios(config)` can do: resolve with a response of any status
\* (validateStatus accepts them all), reject with an AxiosError that carries a
\* response, one that carries only the request (timeout, refused connection,
\* DNS failure), one that carries neither (request setup), or with an error
\* that is no AxiosError
AxiosOutcomes ==
  [kind : {"response", "errorWithResponse"}, status : {200, 404, 500},
   data : {0, 9}]
    \cup [kind : {"noResponse", "setupError", "unknownError"}, status : {0},
          data : {0}]

\* ['POST', 'PUT', 'PATCH'].includes(endpoint.method) && endpoint.payload
SendsPayload(endpoint) ==
  endpoint.method \in {"POST", "PUT", "PATCH"} /\ endpoint.payload # 0

\* the locals of makeRequest after its try block, when axios resolved
TryBlock(endpoint, outcome) ==
  [threw |-> FALSE,
   request_size_bytes  |-> IF SendsPayload(endpoint) THEN endpoint.payload ELSE 0,
   response_size_bytes |-> outcome.data,
   status_code         |-> outcome.status,
   error_message       |-> "undefined"]

CatchBlock_Rethrow(endpoint, outcome) ==
  IF outcome.kind = "unknownError"
  THEN [threw |-> TRUE]
  ELSE [threw |-> FALSE,
        request_size_bytes  |-> IF SendsPayload(endpoint) THEN endpoint.payload
                                ELSE 0,
        response_size_bytes |-> outcome.data,
        status_code         |-> outcome.status,
        error_message       |-> IF outcome.kind = "errorWithResponse"
                                THEN "undefined" ELSE "network"]

\* the locals of makeRequest after its catch block, when axios rejected
CatchBlock(endpoint, outcome) ==
  [threw |-> FALSE,
   request_size_bytes  |-> IF SendsPayload(endpoint) THEN endpoint.payload ELSE 0,
   response_size_bytes |-> IF outcome.kind = "errorWithResponse"
                           THEN outcome.data ELSE 0,
   status_code         |-> IF outcome.kind = "errorWithResponse"
                           THEN outcome.status ELSE 0,
   error_message       |->
     CASE outcome.kind = "errorWithResponse" -> "undefined"
       [] outcome.kind = "noResponse" -> "Request timeout or network error"
       [] outcome.kind = "setupError" -> "Request setup error"
       [] OTHER -> "Unknown error"]

\* makeRequest(endpoint, requestNumber, totalRequests, runId): how the call
\* settles, and the RequestResult it returns
MakeRequest(endpoint, outcome, runId) ==
  LET l == IF outcome.kind = "response"
           THEN TryBlock(endpoint, outcome)
           ELSE CatchBlock(endpoint, outcome)
  IN IF l.threw
     THEN [fn |-> "makeRequest", settled |-> "threw", results |-> <<>>]
     ELSE [fn |-> "makeRequest", settled |-> "returned",
           results |-> << [endpoint |-> endpoint.url,
                           method |-> endpoint.method,
                           request_size_bytes |-> l.request_size_bytes,
                           response_size_bytes |-> l.response_size_bytes,
                           status_code |-> l.status_code,
                           error_message |-> l.error_message,
                           run_id |-> runId] >>]

\* makeRequest is called for one probe; the call is not settled yet
ProbeInit ==
  /\ ServerInit
  /\ call \in [fn : {"makeRequest"}, endpoint : ProbeEndpoints,
               outcome : AxiosOutcomes, runId : RunIds]
  /\ ret = NoRet

\* the probe ends and makeRequest settles
MakeRequestSettles ==
  /\ call.fn = "makeRequest" /\ ret = NoRet
  /\ ret' = MakeRequest(call.endpoint, call.outcome, call.runId)
  /\ UNCHANGED <<call, webVars, now, gateVars, posts, resp, runVars>>

ProbeSpec == ProbeInit /\ [][MakeRequestSettles]_vars

\* ----------------------------------------------------- computePercentiles
\* Numbers that the code computes as fractions are kept exact: a latency or a
\* percentile value v is held as the integer 100 * v ("hundredths"), which is
\* exact for integer latencies and integer percentile targets.
Hundred == 100

\* Math.round(num / den) for num >= 0 and den > 0: halves round up
RoundDiv(num, den) == (2 * num + den) \div (2 * den)

\* the sequence s written out element by element
Tuple(s) == LET Every(x) == TRUE IN SelectSeq(s, Every)

\* Array.prototype.sort with a numeric comparator is stable: the indices of
\* keys in ascending order of key, equal keys in index order
StableOrder(keys) ==
  LET n == Len(keys)
      rank == Tuple([k \in 1..n |->
                 Cardinality({j \in 1..n : \/ keys[j] < keys[k]
                                           \/ (keys[j] = keys[k] /\ j < k)}) + 1])
  IN Tuple([pos \in 1..n |-> CHOOSE k \in 1..n : rank[k] = pos])

SortNumbers_Descending(data) ==
  LET order == StableOrder([k \in 1..Len(data) |-> -data[k]])
  IN [pos \in 1..Len(data) |-> data[order[pos]]]

\* [...data].sort((a, b) => a - b)
SortNumbers(data) ==
  LET order == StableOrder(data)
  IN [pos \in 1..Len(data) |-> data[order[pos]]]

Interpolate_Nearest(sorted, percentile) ==
  Hundred * sorted[RoundDiv(percentile * (Len(sorted) - 1), Hundred) + 1]

Interpolate_Lower(sorted, percentile) ==
  Hundred * sorted[((percentile * (Len(sorted) - 1)) \div Hundred) + 1]

\* the body of the for loop of computePercentiles, in hundredths; index is
\* (percentile / 100) * (sorted.length - 1), arrays are 0-based in the code
Interpolate(sorted, percentile) ==
  LET index100 == percentile * (Len(sorted) - 1)
      lower    == index100 \div Hundred
      upper    == CeilDiv(index100, Hundred)
      fraction == index100 - Hundred * lower
  IN IF lower = upper
     THEN Hundred * sorted[lower + 1]
     ELSE sorted[lower + 1] * (Hundred - fraction) + sorted[upper + 1] * fraction

Elements(s) == {s[k] : k \in DOMAIN s}

\* computePercentiles(data, percentiles) of the backend, in hundredths
computePercentiles(data, percentiles) ==
  IF Len(data) = 0
  THEN [p \in Elements(percentiles) |-> 0]
  ELSE LET sorted == SortNumbers(data)
       IN [p \in Elements(percentiles) |-> Interpolate(sorted, p)]

\* computePercentiles(data, percentiles) of the CLI, in hundredths
cliComputePercentiles(data, percentiles) ==
  IF Len(data) = 0
  THEN [p \in Elements(percentiles) |-> 0]
  ELSE LET sorted == SortNumbers(data)
           Result(p) ==
             LET index100 == p * (Len(sorted) - 1)
                 lower    == index100 \div Hundred
                 upper    == CeilDiv(index100, Hundred)
                 fraction == index100 - Hundred * lower
             IN IF lower = upper
                THEN Hundred * sorted[lower + 1]
                ELSE sorted[lower + 1] * (Hundred - fraction)
                       + sorted[upper + 1] * fraction
       IN [p \in Elements(percentiles) |-> Result(p)]

\* latencies in ms, in any order and with duplicates
LatencyValues == {10, 20, 30}
LatencyArrays == UNION { [1..n -> LatencyValues] : n \in 0..MaxData }

\* the percentile targets the program asks for, and the two extremes
TargetLists == { <<50, 95, 99>>, <<95>>, <<0>>, <<100>>, <<0, 25, 100>> }

PercentileInit ==
  /\ ServerInit
  /\ call \in [fn : {"computePercentiles"}, data : LatencyArrays,
               percentiles : TargetLists]
  /\ ret = NoRet

\* the backend's computePercentiles returns
BackendPercentiles ==
  /\ call.fn = "computePercentiles" /\ ret = NoRet
  /\ ret' = [fn |-> "backend",
             value |-> computePercentiles(call.data, call.percentiles)]
  /\ UNCHANGED <<call, webVars, now, gateVars, posts, resp, runVars>>

\* the CLI's computePercentiles returns
CliPercentiles ==
  /\ call.fn = "computePercentiles" /\ ret = NoRet
  /\ ret' = [fn |-> "cli",
             value |-> cliComputePercentiles(call.data, call.percentiles)]
  /\ UNCHANGED <<call, webVars, now, gateVars, posts, resp, runVars>>

PercentileNext ==
  \/ BackendPercentiles
  \/ CliPercentiles

PercentileSpec == PercentileInit /\ [][PercentileNext]_vars

\* ------------------------------------------------------------- analytics
\* the rows of api_requests the analytics queries read (the rows of one run
\* when a runId is given), in insertion order; latency_ms in ms
SampleMenu ==
  << [endpoint |-> "http://a", method |-> "GET", latency_ms |-> 10,
      request_size_bytes |-> 0, status_code |-> 200],
     [endpoint |-> "http://a", method |-> "GET", latency_ms |-> 20,
      request_size_bytes |-> 0, status_code |-> 200],
     [endpoint |-> "http://a", method |-> "GET", latency_ms |-> 30,
      request_size_bytes |-> 0, status_code |-> 200],
     [endpoint |-> "http://b", method |-> "POST", latency_ms |-> 120,
      request_size_bytes |-> 100, status_code |-> 500],
     [endpoint |-> "http://b", method |-> "POST", latency_ms |-> 600,
      request_size_bytes |-> 999, status_code |-> 0],
     [endpoint |-> "http://b", method |-> "POST", latency_ms |-> 50,
      request_size_bytes |-> 5000, status_code |-> 200],
     [endpoint |-> "http://a", method |-> "POST", latency_ms |-> 1500,
      request_size_bytes |-> 0, status_code |-> 404] >>

\* tables that mix groups, in every insertion order
MixedTables ==
  UNION { [1..n -> Elements(SampleMenu)] : n \in 0..MaxRows }

\* a table of n rows of one group, errors of which failed with status 500
GroupTable(n, errors) ==
  [k \in 1..n |-> [SampleMenu[1] EXCEPT
                     !.status_code = IF k <= errors THEN 500 ELSE 200]]

GroupTables ==
  UNION { { GroupTable(n, e) : e \in 0..n } : n \in 1..MaxGroup }

SampleTables == MixedTables \cup GroupTables

\* the order of strings under ORDER BY
CollationOrder ==
  << "DELETE", "GET", "PATCH", "POST", "PUT", "http://a", "http://b" >>

Collate(str) == CHOOSE k \in DOMAIN CollationOrder : CollationOrder[k] = str

\* s rearranged by a StableOrder of its keys
Arrange(s, order) == [pos \in DOMAIN s |-> s[order[pos]]]

\* SELECT ... FROM api_requests ORDER BY endpoint, method, created_at
OrderByEndpointMethod(rows) ==
  Arrange(rows, StableOrder([k \in DOMAIN rows |->
            Collate(rows[k].endpoint) * (Len(CollationOrder) + 1)
              + Collate(rows[k].method)]))

\* the key of the Map `grouped`
GroupKey(row) == <<row.endpoint, row.method>>

\* the elements of a set of numbers in ascending order
Ascending(S) ==
  [pos \in 1..Cardinality(S) |->
     CHOOSE k \in S : Cardinality({j \in S : j < k}) = pos - 1]

\* the Map `grouped` iterates in insertion order: for each group, the index of
\* its first row
GroupStarts(rows) ==
  Ascending({k \in DOMAIN rows :
               \A j \in 1..(k - 1) : GroupKey(rows[j]) # GroupKey(rows[k])})

IsError_NetworkOnly(status_code) == status_code = 0

\* row.status_code === 0 || row.status_code >= 400
IsError(status_code) == status_code = 0 \/ status_code >= 400

RECURSIVE Sum(_)
Sum(s) == IF Len(s) = 0 THEN 0 ELSE Head(s) + Sum(Tail(s))

\* the percentile targets of getEndpointAnalytics
AnalyticsTargets == <<50, 95, 99>>

\* the AnalyticsResult of one group (avg and stdDev, which no other field
\* depends on, are left out); percentiles and rates in hundredths
GroupAnalytics(rows, key) ==
  LET IsMember(row) == GroupKey(row) = key
      members     == SelectSeq(rows, IsMember)
      latencies   == [k \in DOMAIN members |-> members[k].latency_ms]
      payloads    == [k \in DOMAIN members |-> members[k].request_size_bytes]
      errorCount  == Cardinality({k \in DOMAIN members :
                                    IsError(members[k].status_code)})
      percentiles == computePercentiles(latencies, AnalyticsTargets)
      sorted      == SortNumbers(latencies)
      count       == Len(latencies)
  IN [endpoint |-> key[1], method |-> key[2],
      p50 |-> percentiles[50], p95 |-> percentiles[95],
      p99 |-> percentiles[99],
      min |-> sorted[1], max |-> sorted[count],
      avg_payload_size |-> RoundDiv(Sum(payloads), count),
      request_count |-> count,
      error_count |-> errorCount,
      error_rate |-> RoundDiv(errorCount * Hundred * Hundred, count),
      success_rate |-> RoundDiv((count - errorCount) * Hundred * Hundred, count)]

ByP95Descending_Unsorted(analytics) == analytics

\* analytics.sort((a, b) => b.p95 - a.p95)
ByP95Descending(analytics) ==
  Arrange(analytics, StableOrder([k \in DOMAIN analytics |-> -analytics[k].p95]))

\* getEndpointAnalytics(runId) for the rows its query selects
getEndpointAnalytics(rows) ==
  LET ordered == OrderByEndpointMethod(rows)
      starts  == GroupStarts(ordered)
  IN ByP95Descending([g \in DOMAIN starts |->
                        GroupAnalytics(ordered, GroupKey(ordered[starts[g]]))])

\* JavaScript's Infinity: a number above every request size (express.json()
\* refuses bodies over 100 kB)
Infinity == 1000000000

\* the `buckets` array of getPayloadSizeBuckets
PayloadBuckets ==
  << [name |-> "0-100",     min |-> 0,    max |-> 100],
     [name |-> "100-500",   min |-> 100,  max |-> 500],
     [name |-> "500-1000",  min |-> 500,  max |-> 1000],
     [name |-> "1000-5000", min |-> 1000, max |-> 5000],
     [name |-> "5000+",     min |-> 5000, max |-> Infinity] >>

InBucket_Inclusive(size, bucket) == size >= bucket.min /\ size <= bucket.max

\* size >= bucket.min && size < bucket.max
InBucket(size, bucket) == size >= bucket.min /\ size < bucket.max

\* getPayloadSizeBuckets(endpoint) over the rows of api_requests
getPayloadSizeBuckets(rows, endpoint) ==
  LET Selected(row) == row.endpoint = endpoint /\ row.method = "POST"
      chosen  == SelectSeq(rows, Selected)
      result  == Arrange(chosen, StableOrder([k \in DOMAIN chosen |->
                                    chosen[k].request_size_bytes]))
      Latencies(bucket) ==
        LET Falls(row) == InBucket(row.request_size_bytes, bucket)
            filtered   == SelectSeq(result, Falls)
        IN [k \in DOMAIN filtered |-> filtered[k].latency_ms]
      NonEmpty(bucket) == Len(Latencies(bucket)) > 0
      kept == SelectSeq(PayloadBuckets, NonEmpty)
  IN [b \in DOMAIN kept |->
        [bucket |-> kept[b].name,
         p95 |-> computePercentiles(Latencies(kept[b]), <<95>>)[95],
         request_count |-> Len(Latencies(kept[b]))]]

\* Analytics.percentile(sortedArray, percentile) of the legacy class, in
\* hundredths
LegacyPercentile(sortedArray, percentile) ==
  IF Len(sortedArray) = 0 THEN 0
  ELSE IF Len(sortedArray) = 1 THEN Hundred * sortedArray[1]
  ELSE LET index100 == percentile * (Len(sortedArray) - 1)
           lower    == index100 \div Hundred
           upper    == CeilDiv(index100, Hundred)
           weight   == index100 - Hundred * lower
       IN IF upper >= Len(sortedArray)
          THEN Hundred * sortedArray[Len(sortedArray)]
          ELSE sortedArray[lower + 1] * (Hundred - weight)
                 + sortedArray[upper + 1] * weight

\* the `bucketRanges` array of the legacy class
LegacyBucketRanges ==
  << [min |-> 0, max |-> 100], [min |-> 100, max |-> 500],
     [min |-> 500, max |-> 1000], [min |-> 1000, max |-> 5000],
     [min |-> 5000, max |-> Infinity] >>

\* Analytics.computePayloadBuckets(results) of the legacy class
computePayloadBuckets(results) ==
  LET IsPost(r) == r.method = "POST"
      postResults == SelectSeq(results, IsPost)
      BucketResults(range) ==
        LET Falls(r) == InBucket(r.request_size_bytes, range)
        IN SelectSeq(postResults, Falls)
      NonEmpty(range) == Len(BucketResults(range)) > 0
      kept == SelectSeq(LegacyBucketRanges, NonEmpty)
  IN IF Len(postResults) = 0 THEN <<>>
     ELSE [b \in DOMAIN kept |->
             LET bucketResults == BucketResults(kept[b])
                 latencies == SortNumbers([k \in DOMAIN bucketResults |->
                                             bucketResults[k].latency_ms])
             IN [bucket_min |-> kept[b].min,
                 bucket_max |-> IF kept[b].max = Infinity THEN -1
                                ELSE kept[b].max,
                 p95 |-> LegacyPercentile(latencies, 95),
                 count |-> Len(bucketResults)]]

\* the labels of the CASE expression of getLatencyHistogram, in the order of
\* its ORDER BY
HistogramLabels ==
  << "0-50ms", "50-100ms", "100-200ms", "200-500ms", "500ms-1s", "1s+" >>

\* CASE WHEN latency_ms < 50 THEN '0-50ms' ... ELSE '1s+' END
HistogramLabel(latency_ms) ==
  IF latency_ms < 50 THEN "0-50ms"
  ELSE IF latency_ms < 100 THEN "50-100ms"
  ELSE IF latency_ms < 200 THEN "100-200ms"
  ELSE IF latency_ms < 500 THEN "200-500ms"
  ELSE IF latency_ms < 1000 THEN "500ms-1s"
  ELSE "1s+"

\* getLatencyHistogram(runId): SELECT ... COUNT(*) ... GROUP BY bucket
\* ORDER BY ...; GROUP BY yields a row only for a label some sample has
getLatencyHistogram(rows) ==
  LET Count(label) ==
        Cardinality({k \in DOMAIN rows :
                       HistogramLabel(rows[k].latency_ms) = label})
      Present(label) == Count(label) > 0
      groups == SelectSeq(HistogramLabels, Present)
  IN [g \in DOMAIN groups |-> [bucket |-> groups[g], count |-> Count(groups[g])]]

\* the endpoints getPayloadSizeBuckets is asked about
BucketEndpoints == {"http://a", "http://b"}

AnalyticsInit ==
  /\ ServerInit
  /\ call \in [fn : {"analytics"}, rows : SampleTables]
  /\ ret = NoRet

\* GET /api/run/:id, /r/:slug, /api/results: getEndpointAnalytics returns
GetEndpointAnalytics ==
  /\ call.fn = "analytics" /\ ret = NoRet
  /\ ret' = [fn |-> "getEndpointAnalytics",
             value |-> getEndpointAnalytics(call.rows)]
  /\ UNCHANGED <<call, webVars, now, gateVars, posts, resp, runVars>>

\* getPayloadSizeBuckets(endpoint) returns
GetPayloadSizeBuckets(endpoint) ==
  /\ call.fn = "analytics" /\ ret = NoRet
  /\ ret' = [fn |-> "getPayloadSizeBuckets", endpoint |-> endpoint,
             value |-> getPayloadSizeBuckets(call.rows, endpoint)]
  /\ UNCHANGED <<call, webVars, now, gateVars, posts, resp, runVars>>

\* Analytics.computePayloadBuckets(results) of the legacy class returns
ComputePayloadBuckets ==
  /\ call.fn = "analytics" /\ ret = NoRet
  /\ ret' = [fn |-> "computePayloadBuckets",
             value |-> computePayloadBuckets(call.rows)]
  /\ UNCHANGED <<call, webVars, now, gateVars, posts, resp, runVars>>

\* GET /r/:slug, /api/histogram: getLatencyHistogram returns
GetLatencyHistogram ==
  /\ call.fn = "analytics" /\ ret = NoRet
  /\ ret' = [fn |-> "getLatencyHistogram",
             value |-> getLatencyHistogram(call.rows)]
  /\ UNCHANGED <<call, webVars, now, gateVars, posts, resp, runVars>>

AnalyticsNext ==
  \/ GetEndpointAnalytics
  \/ \E endpoint \in BucketEndpoints : GetPayloadSizeBuckets(endpoint)
  \/ ComputePayloadBuckets
  \/ GetLatencyHistogram

AnalyticsSpec == AnalyticsInit /\ [][AnalyticsNext]_vars

\* ------------------------------------------------------ GET /api/run/:id
WhereRunId_Any(table, runId) ==
  LET others == DOMAIN table \ {runId}
  IN IF others = {} THEN table[runId]
     ELSE table[runId] \o table[CHOOSE r \in others : TRUE]

\* SELECT ... FROM api_requests WHERE run_id = $1, in insertion order
WhereRunId(table, runId) == table[runId]

\* GET /api/run/:id arrives on connection q: the handler runs to its first
\* query
GetRequest(q, id) ==
  /\ gets[q].pc = "idle"
  /\ gets' = [gets EXCEPT ![q] = [NoGet EXCEPT !.pc = "lookup", !.id = id]]

\* getTestRunBySlug finds no row for a run id, getTestRunById answers: 404
\* when there is no such run, else the handler calls getEndpointAnalytics
GetLookup(q) ==
  /\ gets[q].pc = "lookup"
  /\ gets' = [gets EXCEPT ![q] =
                IF test_runs[gets[q].id].status = "none"
                THEN [@ EXCEPT !.pc = "sent", !.code = 404]
                ELSE [@ EXCEPT !.pc = "analytics",
                               !.run = test_runs[gets[q].id]]]
  /\ UNCHANGED <<pureVars, now, gateVars, posts, resp, runVars, polling,
                 currentRun, resultsState>>

\* getEndpointAnalytics(run.id) answers, the handler calls getRawRequestData
GetAnalytics(q) ==
  /\ gets[q].pc = "analytics"
  /\ gets' = [gets EXCEPT ![q] =
                [@ EXCEPT !.pc = "rawData",
                          !.results = getEndpointAnalytics(
                                        WhereRunId(api_requests, gets[q].id))]]
  /\ UNCHANGED <<pureVars, now, gateVars, posts, resp, runVars, polling,
                 currentRun, resultsState>>

\* getRawRequestData({runId}) answers, the handler sends its response (rawData,
\* which the web client does not read, is left out)
GetRawData(q) ==
  /\ gets[q].pc = "rawData"
  /\ gets' = [gets EXCEPT ![q] = [@ EXCEPT !.pc = "sent", !.code = 200]]
  /\ UNCHANGED <<pureVars, now, gateVars, posts, resp, runVars, polling,
                 currentRun, resultsState>>

\* a query of the handler rejects: the catch block answers 500
GetFail(q) ==
  /\ gets[q].pc \in {"lookup", "analytics", "rawData"}
  /\ gets' = [gets EXCEPT ![q] = [NoGet EXCEPT !.pc = "sent",
                                               !.id = gets[q].id,
                                               !.code = 500]]
  /\ UNCHANGED <<pureVars, now, gateVars, posts, resp, runVars, polling,
                 currentRun, resultsState>>

\* some client asks for run id
Get(q, id) ==
  /\ GetRequest(q, id)
  /\ UNCHANGED <<pureVars, now, gateVars, posts, resp, runVars, polling,
                 currentRun, resultsState>>

\* the connection followed in the pair scenario
PairGets == {1}

\* the pair scenario: two runs of a single probe each, started by
\* createAndStartRun, and a GET /api/run/:id request for one of them
PairNext ==
  \/ \E body \in OneProbeBodies : CreateAndStartRun(body)
  \/ \E r \in Runs : CreateOk(r)
  \/ \E r \in Runs : CreateFail(r)
  \/ \E r \in Runs : SetRunningOk(r)
  \/ \E r \in Runs : SetRunningFail(r)
  \/ \E r \in Runs, code \in ProbeOutcomes : ProbeReturn(r, code)
  \/ \E r \in Runs : InsertOk(r)
  \/ \E r \in Runs : InsertFail(r)
  \/ \E r \in Runs : SetCompletedOk(r)
  \/ \E r \in Runs : SetCompletedFail(r)
  \/ \E r \in Runs : CatchFailedOk(r)
  \/ \E r \in Runs : CatchFailedFail(r)
  \/ \E r \in Runs : HandlerFailedOk(r)
  \/ \E r \in Runs : HandlerFailedFail(r)
  \/ \E q \in PairGets, id \in Runs : Get(q, id)
  \/ \E q \in PairGets : GetLookup(q)
  \/ \E q \in PairGets : GetAnalytics(q)
  \/ \E q \in PairGets : GetRawData(q)
  \/ \E q \in PairGets : GetFail(q)

PairSpec == PairInit /\ [][PairNext]_vars

\* ------------------------------------------------------------ web client
\* handleSubmit after `await axios.post(...)` resolved: setCurrentRun({id:
\* runId, status: 'running', ...}), setPolling(true)
HandleSubmitOk ==
  /\ currentRun = NoRun
  /\ resp.code = 200
  /\ currentRun' = [id |-> resp.runId, status |-> "running"]
  /\ polling' = TRUE
  /\ UNCHANGED <<pureVars, now, gateVars, posts, resp, runVars, gets,
                 resultsState>>

\* the interval of the polling effect fires: pollResults sends its request
PollFire(q) ==
  /\ polling
  /\ currentRun # NoRun
  /\ GetRequest(q, currentRun.id)
  /\ UNCHANGED <<pureVars, now, gateVars, posts, resp, runVars, polling,
                 currentRun, resultsState>>

\* run.status === 'completed' || run.status === 'failed'
StopsPolling(status) == status \in Terminal

\* pollResults after `await axios.get(...)` settled with the server's answer:
\* a 2xx answer is displayed, a 404 stops the polling, other errors are logged
PollResponse(q) ==
  /\ gets[q].pc = "sent"
  /\ gets' = [gets EXCEPT ![q] = NoGet]
  /\ IF gets[q].code = 200
     THEN /\ resultsState' = gets[q].results
          /\ currentRun' = [id |-> gets[q].id, status |-> gets[q].run.status]
          /\ polling' = IF StopsPolling(gets[q].run.status) THEN FALSE
                        ELSE polling
     ELSE /\ polling' = IF gets[q].code = 404 THEN FALSE ELSE polling
          /\ UNCHANGED <<currentRun, resultsState>>
  /\ UNCHANGED <<pureVars, now, gateVars, posts, resp, runVars>>

\* the request's 10 s timeout expires before the server has answered: axios
\* rejects without a response, pollResults logs the error
PollTimeout(q) ==
  /\ gets[q].pc \in {"lookup", "analytics", "rawData"}
  /\ gets' = [gets EXCEPT ![q] = NoGet]
  /\ UNCHANGED <<pureVars, now, gateVars, posts, resp, runVars, polling,
                 currentRun, resultsState>>

\* the polling scenario: the web client submits one run of a single probe and
\* polls for it while the run proceeds
PollNext ==
  \/ \E ip \in Callers, body \in OneProbeBodies : Post(ip, body)
  \/ \E r \in Runs : CreateOk(r)
  \/ \E r \in Runs : CreateFail(r)
  \/ \E r \in Runs : SetRunningOk(r)
  \/ \E r \in Runs : SetRunningFail(r)
  \/ \E r \in Runs, code \in ProbeOutcomes : ProbeReturn(r, code)
  \/ \E r \in Runs : InsertOk(r)
  \/ \E r \in Runs : InsertFail(r)
  \/ \E r \in Runs : SetCompletedOk(r)
  \/ \E r \in Runs : SetCompletedFail(r)
  \/ \E r \in Runs : CatchFailedOk(r)
  \/ \E r \in Runs : CatchFailedFail(r)
  \/ \E r \in Runs : HandlerFailedOk(r)
  \/ \E r \in Runs : HandlerFailedFail(r)
  \/ HandleSubmitOk
  \/ \E q \in GetIds : PollFire(q)
  \/ \E q \in GetIds : GetLookup(q)
  \/ \E q \in GetIds : GetAnalytics(q)
  \/ \E q \in GetIds : GetRawData(q)
  \/ \E q \in GetIds : GetFail(q)
  \/ \E q \in GetIds : PollResponse(q)
  \/ \E q \in GetIds : PollTimeout(q)

PollSpec == Init /\ [][PollNext]_vars

\* -------------------------------------------------------------------- CLI
\* the threshold given with --assert-p50=, --assert-p95=, --assert-p99= (ms)
CliThreshold == 100

\* how a target answers the CLI's requests
CliBehaviours == {"fast", "slow", "mixed", "down", "flaky"}

\* what `await axios(config)` does for the i-th request to a target: resolve
\* with a response, or reject (connection refused, DNS failure, timeout)
CliAxios(behaviour, i) ==
  LET fast    == [kind |-> "response", status |-> 200, latency |-> 20]
      slow    == [kind |-> "response", status |-> 200, latency |-> 150]
      refused == [kind |-> "rejected", status |-> 0, latency |-> 30]
  IN CASE behaviour = "fast"  -> fast
       [] behaviour = "slow"  -> slow
       [] behaviour = "mixed" -> IF i % 2 = 1 THEN fast ELSE slow
       [] behaviour = "down"  -> refused
       [] OTHER               -> IF i % 2 = 1 THEN refused ELSE fast

\* the --url arguments: a URL and how its server behaves
CliTargets ==
  [url : {"http://a"}, behaviour : CliBehaviours]
    \cup {[url |-> "nonsense", behaviour |-> "down"]}

CliUrlLists == UNION { [1..n -> CliTargets] : n \in 0..MaxEndpoints }

\* the command lines: no argument at all, or options as parseArgs returns them
\* (Null for an --assert option that is absent)
CliCalls ==
  {[fn |-> "main", args |-> "none", urls |-> <<>>, count |-> Null,
    assertP50 |-> Null, assertP95 |-> Null, assertP99 |-> Null]}
    \cup [fn : {"main"}, args : {"some"}, urls : CliUrlLists,
          count : 1..MaxReq, assertP50 : {Null, CliThreshold},
          assertP95 : {Null, CliThreshold}, assertP99 : {Null, CliThreshold}]

\* measureRequest(endpoint): a rejection of axios is caught and returned as
\* status 0
measureRequest(outcome) ==
  IF outcome.kind = "response"
  THEN [latency |-> outcome.latency, status |-> outcome.status]
  ELSE [latency |-> outcome.latency, status |-> 0]

\* runTests(endpoint, count, quiet): percentiles in hundredths
runTests(target, count) ==
  LET measured    == [i \in 1..count |->
                        measureRequest(CliAxios(target.behaviour, i))]
      latencies   == [i \in 1..count |-> measured[i].latency]
      errorCount  == Cardinality({i \in 1..count : IsError(measured[i].status)})
      percentiles == cliComputePercentiles(latencies, <<50, 95, 99>>)
  IN [endpoint |-> target.url, p50 |-> percentiles[50],
      p95 |-> percentiles[95], p99 |-> percentiles[99],
      request_count |-> count, error_count |-> errorCount]

\* checkAssertions(results, options): the AssertionResults, by endpoint
checkAssertions(cliResults, options) ==
  {[type |-> "p50", k |-> k,
    passed |-> cliResults[k].p50 <= options.assertP50 * Hundred] :
     k \in {j \in DOMAIN cliResults : options.assertP50 # Null}}
    \cup
  {[type |-> "p95", k |-> k,
    passed |-> cliResults[k].p95 <= options.assertP95 * Hundred] :
     k \in {j \in DOMAIN cliResults : options.assertP95 # Null}}
    \cup
  {[type |-> "p99", k |-> k,
    passed |-> cliResults[k].p99 <= options.assertP99 * Hundred] :
     k \in {j \in DOMAIN cliResults : options.assertP99 # Null}}

\* main(): the code the process exits with.  runTests does not throw, since
\* measureRequest catches every error, so the catch around it is never entered
main(options) ==
  IF options.args = "none" THEN 0
  ELSE IF Len(options.urls) = 0 THEN 2
  ELSE IF \E k \in DOMAIN options.urls : ~UrlParses(options.urls[k].url) THEN 2
  ELSE LET cliResults == [k \in DOMAIN options.urls |->
                            runTests(options.urls[k], options.count)]
           assertions == checkAssertions(cliResults, options)
           allPassed  == assertions = {} \/ \A a \in assertions : a.passed
       IN IF ~allPassed THEN 1 ELSE 0

\* the CLI is started with a command line
CliInit ==
  /\ ServerInit
  /\ call \in CliCalls
  /\ ret = NoRet

\* the CLI process exits
CliExits ==
  /\ call.fn = "main" /\ ret = NoRet
  /\ ret' = [fn |-> "exit", code |-> main(call)]
  /\ UNCHANGED <<call, webVars, now, gateVars, posts, resp, runVars>>

CliSpec == CliInit /\ [][CliExits]_vars

\* ============================================================== claims

Row(r) == test_runs[r]
Created(r) == Row(r).status # "none"
Done(r) == task[r].pc = "done"
Expected(r) == Len(task[r].eps) * task[r].rc

\* the loop positions of a run of n endpoints with rc requests each, in
\* (endpoint, request number) order
Positions(n, rc) ==
  [k \in 1..(n * rc) |-> <<((k - 1) \div rc) + 1, ((k - 1) % rc) + 1>>]

IsPrefix(s, t) == Len(s) <= Len(t) /\ \A k \in 1..Len(s) : s[k] = t[k]

\* the rows of run r that belong to endpoint entry k
RowsOf(r, k) == {j \in 1..Len(api_requests[r]) : api_requests[r][j].req[1] = k}

\* C1 (as claimed): every change of a run's persisted status is pending->running,
\* running->completed or running->failed (the row's creation sets pending).
C1_Original ==
  [][\A r \in Runs :
       Row(r).status # Row(r).status'
         => <<Row(r).status, Row(r).status'>> \in
              { <<"none", "pending">>, <<"pending", "running">>,
                <<"running", "completed">>, <<"running", "failed">> }]_vars

\* C1 (amended): every change of a run's persisted status is pending->running,
\* running->completed, running->failed or pending->failed, the last one only
\* after the write of 'running' was rejected; no run is marked completed
\* without having been marked running.
C1_Transitions ==
  [][\A r \in Runs :
       Row(r).status # Row(r).status'
         => /\ <<Row(r).status, Row(r).status'>> \in
                 { <<"none", "pending">>, <<"pending", "running">>,
                   <<"running", "completed">>, <<"running", "failed">>,
                   <<"pending", "failed">> }
            /\ (Row(r).status = "pending" /\ Row(r).status' = "failed")
                 => "running" \in failedWrites[r]]_vars

C1_Witness ==
  \E r \in Runs : writes[r] = <<"pending", "failed">>

\* C2: once a run's persisted status is completed or failed, no step changes it.
C2_TerminalStays ==
  [][\A r \in Runs :
       Row(r).status \in Terminal => Row(r).status' = Row(r).status]_vars

\* the catch block and the .catch handler have both written after a terminal
\* status was reached
C2_Witness ==
  \E r \in Runs : writes[r] = <<"pending", "running", "failed", "failed">>

\* C3 (as claimed): whenever a run's status is completed, the store holds exactly
\* requestCount samples for each endpoint entry of the run.
C3_Original ==
  \A r \in Runs :
    Row(r).status = "completed"
      => \A k \in 1..Len(Row(r).endpoints) :
           Cardinality(RowsOf(r, k)) = Row(r).request_count

\* C3 (amended): whenever a run's status is completed, requestCount probes have
\* returned for each endpoint entry and the store holds at most requestCount
\* samples for each entry: exactly requestCount when no insertRequestResult of
\* the run was rejected, fewer for an entry only when one was.
C3_Samples ==
  \A r \in Runs :
    Row(r).status = "completed"
      => /\ returned[r] = Len(Row(r).endpoints) * Row(r).request_count
         /\ \A k \in 1..Len(Row(r).endpoints) :
              /\ Cardinality(RowsOf(r, k)) <= Row(r).request_count
              /\ "insert" \notin failedWrites[r]
                   => Cardinality(RowsOf(r, k)) = Row(r).request_count

C3_Witness ==
  \E r \in Runs :
    /\ Row(r).status = "completed"
    /\ Len(Row(r).endpoints) = 2 /\ Row(r).request_count = 2
    /\ Row(r).endpoints[1] = Row(r).endpoints[2]
    /\ Len(api_requests[r]) = 4

\* C4: a run is completed only after |endpoints| x requestCount probes have been
\* made and have returned, probes that ended in an HTTP error or without a
\* response included; a run is failed only after a status write was rejected,
\* never because of a probe's outcome.
C4_CompletedAfterAllProbes ==
  \A r \in Runs :
    /\ Row(r).status = "completed"
         => /\ Len(probes[r]) = Expected(r)
            /\ returned[r] = Expected(r)
    /\ Row(r).status = "failed"
         => failedWrites[r] \cap {"running", "completed"} # {}

\* a completed run all of whose probes failed
C4_Witness ==
  \E r \in Runs :
    /\ Row(r).status = "completed"
    /\ Len(api_requests[r]) = 4
    /\ \A j \in 1..4 : api_requests[r][j].status_code \in {0, 500}
    /\ \E j \in 1..4 : api_requests[r][j].status_code = 0
    /\ \E j \in 1..4 : api_requests[r][j].status_code = 500

\* C5: rejected inserts do not abort a run: a finished task whose status writes
\* all succeeded has issued every probe and left the run completed, however
\* many of its inserts were rejected.
C5_InsertFailureTolerated ==
  \A r \in Runs :
    (Done(r) /\ failedWrites[r] \subseteq {"insert"})
      => /\ Row(r).status = "completed"
         /\ probes[r] = Positions(Len(task[r].eps), task[r].rc)

\* every insert of a 2 x 2 run was rejected
C5_Witness ==
  \E r \in Runs :
    /\ Done(r) /\ failedWrites[r] = {"insert"}
    /\ Expected(r) = 4 /\ Len(api_requests[r]) = 0
    /\ Row(r).status = "completed"

C7_Sequential ==
  \A r \in Runs :
    /\ inflight[r] <= 1
    /\ Len(probes[r]) = returned[r] + inflight[r]
    /\ IsPrefix(probes[r], Positions(Len(task[r].eps), task[r].rc))
    /\ Len(api_requests[r]) <= returned[r]
    /\ \A j \in 1..Len(api_requests[r]) :
         /\ \E k \in 1..returned[r] : probes[r][k] = api_requests[r][j].req
         /\ api_requests[r][j].endpoint =
              task[r].eps[api_requests[r][j].req[1]].url
    /\ \A j, k \in 1..Len(api_requests[r]) :
         j < k => \/ api_requests[r][j].req[1] < api_requests[r][k].req[1]
                  \/ /\ api_requests[r][j].req[1] = api_requests[r][k].req[1]
                     /\ api_requests[r][j].req[2] < api_requests[r][k].req[2]

\* the third probe of a 2 x 2 run is in flight, the first two are stored
C7_Witness ==
  \E r \in Runs :
    /\ Expected(r) = 4 /\ Len(task[r].eps) = 2
    /\ inflight[r] = 1 /\ probes[r] = <<<<1, 1>>, <<1, 2>>, <<2, 1>>>>
    /\ Len(api_requests[r]) = 2

\* C8: the k-th attempt since the caller's window was started is admitted iff
\* k <= RATE_LIMIT_REQUESTS, a rejected attempt is answered 429, and no window
\* counts more than RATE_LIMIT_REQUESTS admitted attempts.
C8_AdmitIffWithinLimit ==
  /\ verdict.seq > 0 => (verdict.admit <=> verdict.k <= RATE_LIMIT_REQUESTS)
  /\ resp.seq = verdict.seq => (resp.code = 429 <=> ~verdict.admit)
  /\ \A ip \in Callers : requestCounts[ip].count <= RATE_LIMIT_REQUESTS

\* the third attempt inside the window is rejected
C8_Witness ==
  /\ verdict.k = 3 /\ ~verdict.admit /\ verdict.remaining > 0
  /\ resp.code = 429 /\ resp.seq = verdict.seq

\* C9 (as claimed): an attempt made when the caller's window of duration W has
\* elapsed since its start (t - windowStart >= W, that is resetTime - t <= 0)
\* starts a fresh window with count 1 and is admitted.
C9_Claim ==
  (verdict.seq > 0 /\ verdict.hadRecord /\ verdict.remaining <= 0)
    => /\ verdict.fresh /\ verdict.admit
       /\ requestCounts[verdict.ip] =
            [count |-> 1, resetTime |-> now + RATE_LIMIT_WINDOW_MS]

\* C10: a rejected attempt carries as retry-after the time left in the caller's
\* window in whole seconds rounded up, is answered 429, and leaves the run
\* records, the samples and the background tasks as they were (no
\* createAndStartRun call, so no probe).
C10_RejectionHint ==
  [][(verdict'.seq # verdict.seq /\ ~verdict'.admit)
       => /\ verdict'.retryAfter * MsPerSecond >= verdict'.remaining
          /\ (verdict'.retryAfter - 1) * MsPerSecond < verdict'.remaining
          /\ resp' = [seq |-> verdict'.seq, code |-> 429, runId |-> 0]
          /\ requestCounts' = requestCounts
          /\ UNCHANGED <<test_runs, api_requests, task, probes, inflight>>]_vars

\* a rejection half a second before the window ends, with a run on record
C10_Witness ==
  /\ ~verdict.admit /\ verdict.remaining = TickMs /\ verdict.retryAfter = 1
  /\ \E r \in Runs : Created(r)

\* C11 (as claimed): a POST /api/run answered 400 for invalid input leaves all
\* server state as it was: no run record, no sample, no background task, no
\* probe, and no change to the caller's admission counter.
C11_Claim ==
  [][(resp'.seq # resp.seq /\ resp'.code = 400)
       => /\ UNCHANGED <<test_runs, api_requests, task, probes, inflight>>
          /\ requestCounts' = requestCounts]_vars

\* C12: makeRequest never throws and returns exactly one sample: for an HTTP
\* response of any status the sample's status_code is the response status; for
\* a connection failure, DNS failure, timeout, request-setup error or any other
\* error the sample has status_code 0, an error_message and
\* response_size_bytes 0.
C12_MakeRequestNeverThrows ==
  (call.fn = "makeRequest" /\ ret # NoRet)
    => /\ ret.settled = "returned"
       /\ Len(ret.results) = 1
       /\ ret.results[1].endpoint = call.endpoint.url
       /\ ret.results[1].method = call.endpoint.method
       /\ call.outcome.kind \in {"response", "errorWithResponse"}
            => ret.results[1].status_code = call.outcome.status
       /\ call.outcome.kind \in {"noResponse", "setupError", "unknownError"}
            => /\ ret.results[1].status_code = 0
               /\ ret.results[1].error_message # "undefined"
               /\ ret.results[1].response_size_bytes = 0

\* a probe that failed with an error that is no AxiosError came back as a sample
C12_Witness ==
  /\ call.fn = "makeRequest" /\ call.outcome.kind = "unknownError"
  /\ ret # NoRet /\ ret.settled = "returned"
  /\ ret.results[1].status_code = 0

\* the k-th smallest element of data, counted with duplicates
KthSmallest(data, k) ==
  CHOOSE v \in Elements(data) :
    /\ Cardinality({j \in DOMAIN data : data[j] < v}) < k
    /\ k <= Cardinality({j \in DOMAIN data : data[j] <= v})

\* the reference rule for target p, in hundredths: idx = (p/100)*(n-1),
\* lo = floor(idx), hi = ceil(idx), frac = idx - lo
ReferencePercentile(data, p) ==
  IF Len(data) = 0 THEN 0
  ELSE LET idx100 == p * (Len(data) - 1)
           lo == CHOOSE q \in 0..Len(data) :
                   q * Hundred <= idx100 /\ idx100 < (q + 1) * Hundred
           hi == CHOOSE q \in 0..Len(data) :
                   (q - 1) * Hundred < idx100 /\ idx100 <= q * Hundred
       IN IF lo = hi THEN Hundred * KthSmallest(data, lo + 1)
          ELSE KthSmallest(data, lo + 1) * (Hundred - (idx100 - Hundred * lo))
                 + KthSmallest(data, hi + 1) * (idx100 - Hundred * lo)

\* C13: computePercentiles, the backend's and the CLI's copy alike, returns for
\* every target the value of the reference rule: 0 for empty data, otherwise
\* sorted[lo] when lo = hi and sorted[lo]*(1-frac) + sorted[hi]*frac when not.
C13_PercentilesMatchReference ==
  (call.fn = "computePercentiles" /\ ret # NoRet)
    => /\ DOMAIN ret.value = Elements(call.percentiles)
       /\ \A p \in DOMAIN ret.value :
            ret.value[p] = ReferencePercentile(call.data, p)
       /\ ret.value = computePercentiles(call.data, call.percentiles)
       /\ ret.value = cliComputePercentiles(call.data, call.percentiles)

\* the CLI interpolated between the two largest of four unsorted latencies
C13_Witness ==
  /\ call.fn = "computePercentiles" /\ ret # NoRet /\ ret.fn = "cli"
  /\ call.data = <<30, 10, 20, 10>> /\ call.percentiles = <<50, 95, 99>>
  /\ ret.value[50] = 1500 /\ ret.value[95] = 2850 /\ ret.value[99] = 2970

Min(data) == CHOOSE v \in Elements(data) : \A w \in Elements(data) : v <= w
Max(data) == CHOOSE v \in Elements(data) : \A w \in Elements(data) : v >= w

\* C14: for non-empty data the percentile for target 0 is the minimum and the
\* one for target 100 is the maximum; for data of length 1 every target gives
\* that single value.
C14_Extremes ==
  (call.fn = "computePercentiles" /\ ret # NoRet /\ Len(call.data) > 0)
    => /\ 0 \in DOMAIN ret.value => ret.value[0] = Hundred * Min(call.data)
       /\ 100 \in DOMAIN ret.value => ret.value[100] = Hundred * Max(call.data)
       /\ Len(call.data) = 1
            => \A p \in DOMAIN ret.value : ret.value[p] = Hundred * call.data[1]

\* minimum and maximum of unsorted data with duplicates
C14_Witness ==
  /\ call.fn = "computePercentiles" /\ ret # NoRet /\ ret.fn = "backend"
  /\ call.data = <<20, 30, 10, 30>> /\ call.percentiles = <<0, 25, 100>>
  /\ ret.value[0] = 1000 /\ ret.value[100] = 3000

Returned(fn) == call.fn = "analytics" /\ ret.fn = fn

\* the three samples of the example, stored in any order
TenTwentyThirty ==
  /\ Len(call.rows) = 3
  /\ Elements(call.rows) = {SampleMenu[1], SampleMenu[2], SampleMenu[3]}

Near(x, y, tolerance) == x - y <= tolerance /\ y - x <= tolerance

\* C15 (as claimed): three samples of one group with latencies 10, 20, 30 ms
\* and status 200 give p50 = 20, p95 = 28 (to the unit), p99 = 29.6 (to the
\* first decimal), errorCount = 0 and successRate = 100.
C15_Original ==
  (Returned("getEndpointAnalytics") /\ TenTwentyThirty)
    => /\ Len(ret.value) = 1
       /\ ret.value[1].p50 = 2000
       /\ Near(ret.value[1].p95, 2800, 50)
       /\ Near(ret.value[1].p99, 2960, 5)
       /\ ret.value[1].error_count = 0
       /\ ret.value[1].success_rate = 10000

\* C15 (amended): three samples of one group with latencies 10, 20, 30 ms and
\* status 200 give p50 = 20, p95 = 29, p99 = 29.8, errorCount = 0 and
\* successRate = 100.
C15_Example ==
  (Returned("getEndpointAnalytics") /\ TenTwentyThirty)
    => /\ Len(ret.value) = 1
       /\ ret.value[1].p50 = 2000
       /\ ret.value[1].p95 = 2900
       /\ ret.value[1].p99 = 2980
       /\ ret.value[1].error_count = 0
       /\ ret.value[1].error_rate = 0
       /\ ret.value[1].success_rate = 10000

\* the example, stored slowest first
C15_Witness ==
  /\ Returned("getEndpointAnalytics")
  /\ call.rows = <<SampleMenu[3], SampleMenu[1], SampleMenu[2]>>
  /\ ret.value[1].request_count = 3 /\ ret.value[1].p95 = 2900

\* C16 (as claimed): for every group returned by getEndpointAnalytics,
\* error_rate + success_rate = 100 exactly (10000 hundredths).
C16_Claim ==
  Returned("getEndpointAnalytics")
    => \A g \in DOMAIN ret.value :
         ret.value[g].error_rate + ret.value[g].success_rate = Hundred * Hundred

\* the rows of the table that belong to the group of an entry
RowsOfGroup(entry) ==
  {k \in DOMAIN call.rows :
     /\ call.rows[k].endpoint = entry.endpoint
     /\ call.rows[k].method = entry.method}

ErrorsOfGroup(entry) ==
  {k \in RowsOfGroup(entry) :
     call.rows[k].status_code = 0 \/ call.rows[k].status_code >= 400}

\* the example: statuses 200, 200, 500, 0 of one group, stored in any order
FourStatuses ==
  /\ Len(call.rows) = 4
  /\ Elements(call.rows) = {SampleMenu[4], SampleMenu[5], SampleMenu[6]}
  /\ Cardinality({k \in 1..4 : call.rows[k] = SampleMenu[6]}) = 2

CountsAndExample ==
  /\ \A g \in DOMAIN ret.value :
       /\ ret.value[g].request_count = Cardinality(RowsOfGroup(ret.value[g]))
       /\ ret.value[g].error_count = Cardinality(ErrorsOfGroup(ret.value[g]))
       /\ 0 <= ret.value[g].error_count
       /\ ret.value[g].error_count <= ret.value[g].request_count
  /\ FourStatuses
       => /\ Len(ret.value) = 1
          /\ ret.value[1].error_count = 2
          /\ ret.value[1].error_rate = 5000
          /\ ret.value[1].success_rate = 5000

\* C17 (as claimed): error_count is the number of the group's samples with
\* status 0 or >= 400, 0 <= error_count <= request_count, and error_rate is
\* error_count / request_count * 100; statuses 200, 200, 500, 0 give
\* errorCount 2, errorRate 50, successRate 50.
C17_Original ==
  Returned("getEndpointAnalytics")
    => /\ CountsAndExample
       /\ \A g \in DOMAIN ret.value :
            ret.value[g].error_rate * ret.value[g].request_count
              = ret.value[g].error_count * Hundred * Hundred

\* C17 (amended): error_count is the number of the group's samples with
\* status 0 or >= 400, 0 <= error_count <= request_count, and error_rate is
\* error_count / request_count * 100 rounded to two decimals (within half a
\* hundredth of the quotient, and equal to it when it has at most two
\* decimals); statuses 200, 200, 500, 0 give errorCount 2, errorRate 50,
\* successRate 50.
C17_ErrorCount ==
  Returned("getEndpointAnalytics")
    => /\ CountsAndExample
       /\ \A g \in DOMAIN ret.value :
            LET exact == ret.value[g].error_count * Hundred * Hundred
                shown == ret.value[g].error_rate * ret.value[g].request_count
            IN /\ 2 * (shown - exact) <= ret.value[g].request_count
               /\ 2 * (exact - shown) < ret.value[g].request_count

\* one error among three samples: the rate 33.33 is a rounded quotient
C17_Witness ==
  /\ Returned("getEndpointAnalytics")
  /\ Len(ret.value) = 1 /\ ret.value[1].request_count = 3
  /\ ret.value[1].error_count = 1 /\ ret.value[1].error_rate = 3333

\* C18: getEndpointAnalytics returns one entry per distinct (endpoint, method)
\* pair of the samples, and each entry's p95 is >= the p95 of the entry after
\* it, whatever the order in which the samples were stored.
C18_SortedByP95 ==
  Returned("getEndpointAnalytics")
    => /\ {<<ret.value[g].endpoint, ret.value[g].method>> : g \in DOMAIN ret.value}
            = {<<call.rows[k].endpoint, call.rows[k].method>> :
                 k \in DOMAIN call.rows}
       /\ \A g, h \in DOMAIN ret.value :
            g # h => <<ret.value[g].endpoint, ret.value[g].method>>
                       # <<ret.value[h].endpoint, ret.value[h].method>>
       /\ \A g \in 1..(Len(ret.value) - 1) :
            ret.value[g].p95 >= ret.value[g + 1].p95

\* three groups stored fastest first come back slowest first
C18_Witness ==
  /\ Returned("getEndpointAnalytics")
  /\ call.rows = <<SampleMenu[1], SampleMenu[6], SampleMenu[7]>>
  /\ Len(ret.value) = 3
  /\ ret.value[1].p95 = 150000 /\ ret.value[2].p95 = 5000
  /\ ret.value[3].p95 = 1000

\* the lower ends of the five payload ranges [0,100) [100,500) [500,1000)
\* [1000,5000) [5000,inf), and the names the backend gives them
RangeLow == <<0, 100, 500, 1000, 5000>>
RangeName == <<"0-100", "100-500", "500-1000", "1000-5000", "5000+">>

\* the one range a size falls in
RangeOf(size) ==
  CHOOSE i \in DOMAIN RangeLow :
    /\ RangeLow[i] <= size
    /\ i < Len(RangeLow) => size < RangeLow[i + 1]

\* the POST samples the analysis is about: of one endpoint for
\* getPayloadSizeBuckets, of every endpoint for the legacy class
PostSamples ==
  {k \in DOMAIN call.rows :
     /\ call.rows[k].method = "POST"
     /\ ret.fn = "getPayloadSizeBuckets" => call.rows[k].endpoint = ret.endpoint}

\* the ranges that hold a POST sample, in ascending order
UsedRanges ==
  Ascending({RangeOf(call.rows[k].request_size_bytes) : k \in PostSamples})

SamplesIn(range) ==
  Cardinality({k \in PostSamples :
                 RangeOf(call.rows[k].request_size_bytes) = range})

\* C19: the payload-bucket analysis counts POST samples only: without POST
\* samples the list is empty; otherwise every POST sample is counted in exactly
\* one of the five ranges by request_size_bytes, a range without sample is
\* left out and the ranges left appear in ascending order.
C19_PayloadBuckets ==
  /\ Returned("getPayloadSizeBuckets")
       => /\ PostSamples = {} => ret.value = <<>>
          /\ Len(ret.value) = Len(UsedRanges)
          /\ \A b \in DOMAIN ret.value :
               /\ ret.value[b].bucket = RangeName[UsedRanges[b]]
               /\ ret.value[b].request_count = SamplesIn(UsedRanges[b])
               /\ ret.value[b].request_count > 0
  /\ Returned("computePayloadBuckets")
       => /\ PostSamples = {} => ret.value = <<>>
          /\ Len(ret.value) = Len(UsedRanges)
          /\ \A b \in DOMAIN ret.value :
               /\ ret.value[b].bucket_min = RangeLow[UsedRanges[b]]
               /\ ret.value[b].count = SamplesIn(UsedRanges[b])
               /\ ret.value[b].count > 0

\* POST samples at the boundaries 100 and 5000, stored largest first next to a
\* GET sample: three of the five ranges are returned
C19_Witness ==
  /\ Returned("getPayloadSizeBuckets") /\ ret.endpoint = "http://b"
  /\ call.rows = <<SampleMenu[6], SampleMenu[1], SampleMenu[5], SampleMenu[4]>>
  /\ Len(ret.value) = 3
  /\ ret.value[1].bucket = "100-500" /\ ret.value[3].bucket = "5000+"

\* C20 (as claimed): the latency histogram consists of exactly six buckets,
\* [0,50) [50,100) [100,200) [200,500) [500,1000) [1000,inf) ms, in that order,
\* for every sample set, ranges without sample included with count 0.
C20_Claim ==
  Returned("getLatencyHistogram")
    => /\ Len(ret.value) = 6
       /\ \A b \in DOMAIN ret.value :
            /\ ret.value[b].bucket = HistogramLabels[b]
            /\ ret.value[b].count =
                 Cardinality({k \in DOMAIN call.rows :
                    HistogramLabel(call.rows[k].latency_ms) = HistogramLabels[b]})

\* C22: no probe is issued while the run's persisted status is pending: when a
\* run has issued a probe, the write of 'running' has resolved before and has
\* set started_at; when that write was rejected the run issues no probe.
C22_RunningBeforeFirstProbe ==
  \A r \in Runs :
    /\ probes[r] # <<>>
         => /\ Len(writes[r]) >= 2 /\ writes[r][2] = "running"
            /\ Row(r).status \notin {"none", "pending"}
            /\ Row(r).started_at # Null
    /\ Row(r).status \in {"none", "pending"}
         => probes[r] = <<>> /\ inflight[r] = 0
    /\ "running" \in failedWrites[r]
         => probes[r] = <<>> /\ api_requests[r] = <<>>

\* the first probe of a run is in flight and the run is running
C22_Witness ==
  \E r \in Runs :
    /\ probes[r] = <<<<1, 1>>>> /\ inflight[r] = 1
    /\ Row(r).status = "running" /\ Row(r).started_at # Null

\* an exception has reached the catch block of runEndpointTests: nothing in
\* the loops throws, so it is the rejection of the write of 'completed'
Escaped(r) == "completed" \in failedWrites[r]

C25_NoOrphanSamples ==
  \A r \in Runs :
    /\ (probes[r] # <<>> \/ api_requests[r] # <<>>)
         => Created(r) /\ writes[r][1] = "pending"
    /\ "create" \in failedWrites[r]
         => /\ ~Created(r) /\ Done(r)
            /\ probes[r] = <<>> /\ api_requests[r] = <<>>
    /\ \A j \in 1..Len(api_requests[r]) :
         /\ api_requests[r][j].run_id = r
         /\ test_runs[api_requests[r][j].run_id].status # "none"

\* samples stored under a created run
C25_Witness ==
  \E r \in Runs :
    Created(r) /\ Len(api_requests[r]) = 2 /\ api_requests[r][2].run_id = r

\* C27 (as claimed): pending implies started_at and completed_at unset;
\* running implies started_at set and completed_at unset; completed or failed
\* implies both set.
C27_Original ==
  \A r \in Runs :
    /\ Row(r).status = "pending"
         => Row(r).started_at = Null /\ Row(r).completed_at = Null
    /\ Row(r).status = "running"
         => Row(r).started_at # Null /\ Row(r).completed_at = Null
    /\ Row(r).status \in Terminal
         => Row(r).started_at # Null /\ Row(r).completed_at # Null

\* C27 (amended): pending implies started_at and completed_at unset; running
\* implies started_at set and completed_at unset; completed implies both set;
\* failed implies completed_at set, and started_at set unless the run failed
\* straight from pending because the write of 'running' was rejected.
C27_Timestamps ==
  \A r \in Runs :
    /\ Row(r).status = "pending"
         => Row(r).started_at = Null /\ Row(r).completed_at = Null
    /\ Row(r).status = "running"
         => Row(r).started_at # Null /\ Row(r).completed_at = Null
    /\ Row(r).status = "completed"
         => Row(r).started_at # Null /\ Row(r).completed_at # Null
    /\ Row(r).status = "failed"
         => /\ Row(r).completed_at # Null
            /\ Row(r).started_at = Null <=> "running" \in failedWrites[r]

\* a run that failed without having started
C27_Witness ==
  \E r \in Runs :
    /\ Row(r).status = "failed" /\ Row(r).started_at = Null
    /\ Row(r).completed_at # Null

\* the time of the attempt that the last verdict answered, for a caller whose
\* record that attempt left as it is
RejectedAt(ip) == requestCounts[ip].resetTime - verdict.remaining

\* C29: a caller whose attempt was rejected with retryAfter = r seconds and
\* whose next attempt comes exactly r seconds after the rejection is admitted.
C29_Claim ==
  [][\A ip \in Callers :
       (/\ verdict.seq > 0 /\ verdict.ip = ip /\ ~verdict.admit
        /\ verdict'.seq # verdict.seq /\ verdict'.ip = ip
        /\ now = RejectedAt(ip) + verdict.retryAfter * MsPerSecond)
         => verdict'.admit]_vars

\* C28: the terminal transition of a run is written once: after the write that
\* made the run completed or failed, completed_at keeps the value that write
\* gave it.
C28_Claim ==
  [][\A r \in Runs :
       Row(r).status \in Terminal
         => test_runs'[r].completed_at = Row(r).completed_at]_vars

\* the handlers of admitted requests that wait for createTestRun
Waiting == {r \in Runs : task[r].pc = "create"}

\* C24: rateLimit checks and updates a caller's counter in one step, whatever
\* handlers of earlier requests are under way: an admitted attempt raises the
\* count by exactly one (to 1 when it starts a window), a rejected one leaves
\* it, no other step touches it, and no window admits more than
\* RATE_LIMIT_REQUESTS attempts.
C24_AtomicCount ==
  [][/\ \A ip \in Callers :
          IF verdict'.seq # verdict.seq /\ verdict'.ip = ip
          THEN /\ verdict'.admit /\ verdict'.fresh
                    => requestCounts'[ip].count = 1
               /\ verdict'.admit /\ ~verdict'.fresh
                    => /\ requestCounts[ip].count < RATE_LIMIT_REQUESTS
                       /\ requestCounts'[ip] =
                            [requestCounts[ip] EXCEPT !.count = @ + 1]
               /\ ~verdict'.admit => requestCounts'[ip] = requestCounts[ip]
          ELSE requestCounts'[ip] = requestCounts[ip]
     /\ \A ip \in Callers :
          /\ requestCounts'[ip].count <= RATE_LIMIT_REQUESTS
          /\ requestCounts'[ip].count
               = IF attempts'[ip] <= RATE_LIMIT_REQUESTS THEN attempts'[ip]
                 ELSE RATE_LIMIT_REQUESTS]_vars

\* two admitted requests of one caller wait for createTestRun at once, both are
\* counted, and a third request that arrived meanwhile was rejected
C24_Witness ==
  /\ Cardinality(Waiting) = 2
  /\ \A r \in Waiting : task[r].seq \in {1, 2}
  /\ verdict.seq = 3 /\ ~verdict.admit
  /\ requestCounts[verdict.ip].count = RATE_LIMIT_REQUESTS

\* the sample s is the one run r's probe at position s.req produced
ProducedBy(s, r) ==
  /\ s.run_id = r
  /\ \E k \in 1..Len(probes[r]) : probes[r][k] = s.req
  /\ s.endpoint = task[r].eps[s.req[1]].url
  /\ s.method = task[r].eps[s.req[1]].method

\* the answer on connection q shows run id as its record and samples once were
AnswerOf(q, id) ==
  /\ \E k \in 1..Len(writes[id]) : writes[id][k] = gets[q].run.status
  /\ gets[q].run.endpoints = task[id].eps
  /\ gets[q].run.request_count = task[id].rc
  /\ \E n \in 0..Len(api_requests[id]) :
       gets[q].results = getEndpointAnalytics(SubSeq(api_requests[id], 1, n))

\* C26: runs that execute at the same time keep their results apart: every
\* sample is stored under the run whose probe produced it and is never changed
\* or removed, and the status and analytics GET /api/run/:id answers for a run
\* come from that run's record and that run's samples alone.
C26_RunsIsolated ==
  /\ [](\A r \in Runs : \A j \in 1..Len(api_requests[r]) :
          ProducedBy(api_requests[r][j], r))
  /\ [][\A r \in Runs : IsPrefix(api_requests[r], api_requests'[r])]_vars
  /\ [](\A q \in GetIds :
          (gets[q].pc = "sent" /\ gets[q].code = 200)
            => AnswerOf(q, gets[q].id))

\* run 1's answer counts its one successful sample while run 2, still running
\* too, has stored a failed sample for the same endpoint and method
C26_Witness ==
  \E q \in GetIds :
    /\ gets[q].pc = "sent" /\ gets[q].id = 1
    /\ Len(gets[q].results) = 1
    /\ gets[q].results[1].request_count = 1
    /\ gets[q].results[1].error_count = 0
    /\ gets[q].run.status = "running"
    /\ Row(1).status = "running" /\ Row(2).status = "running"
    /\ Len(api_requests[2]) = 1
    /\ api_requests[2][1].status_code = 500
    /\ api_requests[2][1].endpoint = gets[q].results[1].endpoint
    /\ api_requests[2][1].method = gets[q].results[1].method

\* C30: in the web client, once a poll response with run status completed or
\* failed has been processed, polling has stopped and stays stopped, and the
\* displayed run status and results do not go back to a non-terminal snapshot,
\* whatever poll responses arrive afterwards.
C30_Claim ==
  [][currentRun.status \in Terminal
       => /\ ~polling /\ ~polling'
          /\ currentRun'.status \in Terminal
          /\ resultsState' = resultsState]_vars

\* no URL was given, or one of the URLs does not parse
ConfigError(options) ==
  \/ Len(options.urls) = 0
  \/ \E k \in DOMAIN options.urls : ~UrlParses(options.urls[k].url)

\* some request of the CLI run ended without a response
NetworkError(options) ==
  /\ ~ConfigError(options)
  /\ \E k \in DOMAIN options.urls, i \in 1..options.count :
       CliAxios(options.urls[k].behaviour, i).kind = "rejected"

\* the measured percentile of some endpoint is above a threshold given
Exceeded(options) ==
  /\ ~ConfigError(options)
  /\ \E k \in DOMAIN options.urls :
       LET measured == runTests(options.urls[k], options.count)
       IN \/ options.assertP50 # Null
               /\ measured.p50 > options.assertP50 * Hundred
          \/ options.assertP95 # Null
               /\ measured.p95 > options.assertP95 * Hundred
          \/ options.assertP99 # Null
               /\ measured.p99 > options.assertP99 * Hundred

\* C21: started with arguments, the CLI exits with code 1 iff some --assert
\* threshold is exceeded by the measured percentile of some endpoint, with code
\* 2 when a configuration error (no URL, invalid URL) or a network error
\* occurred, and with code 0 in every other case.
C21_Claim ==
  (call.fn = "main" /\ call.args = "some" /\ ret # NoRet)
    => /\ ret.code = 1 <=> Exceeded(call)
       /\ ConfigError(call) => ret.code = 2
       /\ (NetworkError(call) /\ ~Exceeded(call)) => ret.code = 2
       /\ (~ConfigError(call) /\ ~NetworkError(call) /\ ~Exceeded(call))
            => ret.code = 0

====
